---- MODULE Spec2Model ----
(***************************************************************************)
(* A model of package net/http/pprof (src/src/net/http/pprof/pprof.go):    *)
(* the HTTP handlers Cmdline, Profile, Trace, Symbol, Index and            *)
(* handler.ServeHTTP, the helpers sleep, durationExceedsWriteTimeout and   *)
(* serveError, and the collaborators they call (the CPU sampler, the       *)
(* execution tracer, the profile registry, the symbol table, strconv and   *)
(* fmt).                                                                   *)
(*                                                                         *)
(* Text is a sequence of one-character strings, so that parsing and        *)
(* formatting are computed character by character.  Time is counted in     *)
(* milliseconds.                                                           *)
(***************************************************************************)
EXTENDS Integers, Sequences, FiniteSets, TLC

VARIABLES
    srv,       \* the *http.Server of the request context: [ok, WriteTimeout]
    cn,        \* whether the ResponseWriter implements http.CloseNotifier
    profiles,  \* the names runtime/pprof's registry holds
    symtab,    \* the symbol table: address -> function name
    Args,      \* os.Args
    cpu,       \* the CPU sampler: 0 when idle, else the request it writes to
    tracing,   \* the execution tracer: 0 when idle, else the request it writes to
    pc,        \* per request: where its handler stands
    req,       \* per request: the request being served
    sec,       \* per request: the handler's local sec, in milliseconds
    dur,       \* per request: the duration handed to sleep, in milliseconds
    wake,      \* per request: which case of sleep's select was taken
    calls,     \* per request: the runtime calls made so far, in order
    w          \* per request: the http.ResponseWriter

vars == <<srv, cn, profiles, symtab, Args, cpu, tracing, pc, req, sec, dur, wake, calls, w>>

(***************************************************************************)
(* Bounds of the model.                                                    *)
(***************************************************************************)
NumRequests == 2   \* requests in flight at once
MaxLen == 3        \* longest seconds value enumerated
MaxFlagLen == 2    \* longest gc or debug value enumerated
MaxSymLen == 5     \* longest /symbol input enumerated
MaxArgs == 2       \* longest argument vector enumerated
MaxArgLen == 2     \* longest argument enumerated

Slots == 1..NumRequests

(***************************************************************************)
(* Text.                                                                   *)
(***************************************************************************)
RECURSIVE StrOf(_)
StrOf(cs) == IF cs = <<>> THEN "" ELSE cs[1] \o StrOf(Tail(cs))

\* every sequence over alphabet S of length at most n
SeqsUpTo(S, n) == UNION {[1..k -> S] : k \in 0..n}

HexDigits == <<"0", "1", "2", "3", "4", "5", "6", "7", "8", "9", "a", "b", "c", "d", "e", "f">>

IsDigit(c, base) == \E i \in 1..base : HexDigits[i] = c

DigitVal(c) == (CHOOSE i \in 1..16 : HexDigits[i] = c) - 1

\* the value of a run of digits in the given base (the accumulation loop of strconv)
RECURSIVE Digits(_, _, _)
Digits(cs, base, acc) ==
    IF cs = <<>> THEN acc ELSE Digits(Tail(cs), base, acc * base + DigitVal(cs[1]))

AllDigits(cs, base) == \A i \in 1..Len(cs) : IsDigit(cs[i], base)

\* strconv.ParseInt(s, 10, 64): an optional sign and one or more decimal digits
ParseInt(s) ==
    LET signed == Len(s) > 0 /\ s[1] \in {"+", "-"}
        body == IF signed THEN Tail(s) ELSE s
    IN  IF body = <<>> \/ ~AllDigits(body, 10)
        THEN [val |-> 0, err |-> TRUE]
        ELSE [val |-> (IF signed /\ s[1] = "-" THEN -1 ELSE 1) * Digits(body, 10, 0),
              err |-> FALSE]

\* strconv.Atoi
Atoi(s) == ParseInt(s)

Second == 1000

\* the first three digits after the point, as thousandths
Millis(frac) ==
    LET d(i) == IF i <= Len(frac) THEN DigitVal(frac[i]) ELSE 0
    IN  100 * d(1) + 10 * d(2) + d(3)

\* strconv.ParseFloat(s, 64) on decimal text without exponent: an optional sign,
\* digits with at most one point and at least one digit.  The value is in
\* milliseconds (thousandths of the parsed number).
ParseFloat(s) ==
    LET signed == Len(s) > 0 /\ s[1] \in {"+", "-"}
        body == IF signed THEN Tail(s) ELSE s
        dots == {i \in 1..Len(body) : body[i] = "."}
        dot == IF dots = {} THEN Len(body) + 1 ELSE CHOOSE i \in dots : TRUE
        int == SubSeq(body, 1, dot - 1)
        frac == SubSeq(body, dot + 1, Len(body))
        ok == /\ Cardinality(dots) <= 1
              /\ Len(int) + Len(frac) > 0
              /\ AllDigits(int, 10)
              /\ AllDigits(frac, 10)
    IN  IF ~ok
        THEN [val |-> 0, err |-> TRUE]
        ELSE [val |-> (IF signed /\ s[1] = "-" THEN -1 ELSE 1)
                          * (Digits(int, 10, 0) * Second + Millis(frac)),
              err |-> FALSE]

(***************************************************************************)
(* The response writer: the header map, the status (0 until the header is  *)
(* written), the header as it was sent, and the writes to the body.        *)
(***************************************************************************)
NoHeader == [k \in {} |-> ""]

NewResponseWriter == [header |-> NoHeader, status |-> 0, sent |-> NoHeader, body |-> <<>>]

HeaderSet(h, k, v) == [x \in DOMAIN h \cup {k} |-> IF x = k THEN v ELSE h[x]]

HeaderDel(h, k) == [x \in DOMAIN h \ {k} |-> h[x]]

SetHeader(rw, k, v) == [rw EXCEPT !.header = HeaderSet(@, k, v)]

\* the first WriteHeader sends the header map as it stands; later ones do nothing
WriteHeader(rw, status) ==
    IF rw.status # 0 THEN rw ELSE [rw EXCEPT !.status = status, !.sent = rw.header]

\* a write sends the header with status 200 when none was sent yet
Write(rw, data) == [WriteHeader(rw, 200) EXCEPT !.body = Append(@, data)]

serveErrorKeepsDisposition(rw, status, txt) ==
    LET w1 == SetHeader(rw, "Content-Type", "text/plain; charset=utf-8")
        w2 == SetHeader(w1, "X-Go-Pprof", "1")
    IN  Write(WriteHeader(w2, status), txt)

serveError(rw, status, txt) ==
    LET w1 == SetHeader(rw, "Content-Type", "text/plain; charset=utf-8")
        w2 == SetHeader(w1, "X-Go-Pprof", "1")
        w3 == [w2 EXCEPT !.header = HeaderDel(@, "Content-Disposition")]
    IN  Write(WriteHeader(w3, status), txt)

(***************************************************************************)
(* The capture engines.  Each is a process-wide singleton: a start while   *)
(* one capture is active fails, a stop ends whatever capture is active.    *)
(***************************************************************************)
StartCPUProfile(c, r) == IF c # 0 THEN [err |-> TRUE, now |-> c] ELSE [err |-> FALSE, now |-> r]

StopCPUProfile(c) == 0

TraceStart(t, r) == IF t # 0 THEN [err |-> TRUE, now |-> t] ELSE [err |-> FALSE, now |-> r]

TraceStop(t) == 0

(***************************************************************************)
(* The timed handlers.                                                     *)
(***************************************************************************)
durationExceedsWriteTimeoutStrict(seconds) ==
    srv.ok /\ srv.WriteTimeout # 0 /\ seconds > srv.WriteTimeout

durationExceedsWriteTimeout(seconds) ==
    srv.ok /\ srv.WriteTimeout # 0 /\ seconds >= srv.WriteTimeout

Free(r) == pc[r] \in {"idle", "done"}

\* Profile: sec, the seconds form value as an integer, 30 when it is 0
ProfileSeconds(seconds) ==
    LET p == ParseInt(seconds).val
    IN  IF p = 0 THEN 30 ELSE p

TraceSecondsKeepsZero(seconds) ==
    LET p == ParseFloat(seconds)
    IN  IF p.val < 0 \/ p.err THEN Second ELSE p.val

\* Trace: sec, the seconds form value as a float (in milliseconds here), one
\* second when it is not positive or does not parse
TraceSeconds(seconds) ==
    LET p == ParseFloat(seconds)
    IN  IF p.val <= 0 \/ p.err THEN Second ELSE p.val

\* Profile up to the call of StartCPUProfile
ProfileBegin(r, seconds) ==
    LET w1 == SetHeader(NewResponseWriter, "X-Content-Type-Options", "nosniff")
        s == ProfileSeconds(seconds)
        w2 == SetHeader(w1, "Content-Type", "application/octet-stream")
        w3 == SetHeader(w2, "Content-Disposition", "attachment; filename=\"profile\"")
    IN  /\ Free(r)
        /\ req' = [req EXCEPT ![r] = [handler |-> "Profile", seconds |-> seconds]]
        /\ sec' = [sec EXCEPT ![r] = s * Second]
        /\ dur' = [dur EXCEPT ![r] = 0]
        /\ wake' = [wake EXCEPT ![r] = "none"]
        /\ calls' = [calls EXCEPT ![r] = <<>>]
        /\ IF durationExceedsWriteTimeout(s * Second)
           THEN /\ w' = [w EXCEPT ![r] = serveError(w1, 400,
                            "profile duration exceeds server's WriteTimeout")]
                /\ pc' = [pc EXCEPT ![r] = "done"]
           ELSE /\ w' = [w EXCEPT ![r] = w3]
                /\ pc' = [pc EXCEPT ![r] = "start"]
        /\ UNCHANGED <<srv, cn, profiles, symtab, Args, cpu, tracing>>

ProfileStartStopsOnError(r) ==
    LET st == StartCPUProfile(cpu, r)
    IN  /\ pc[r] = "start"
        /\ req[r].handler = "Profile"
        /\ IF st.err
           THEN /\ w' = [w EXCEPT ![r] = serveError(@, 500, "Could not enable CPU profiling")]
                /\ pc' = [pc EXCEPT ![r] = "done"]
                /\ cpu' = StopCPUProfile(st.now)
                /\ UNCHANGED dur
           ELSE /\ w' = [w EXCEPT ![r] = Write(@, "cpu profile")]
                /\ pc' = [pc EXCEPT ![r] = "sleep"]
                /\ cpu' = st.now
                /\ dur' = [dur EXCEPT ![r] = sec[r]]
        /\ UNCHANGED <<srv, cn, profiles, symtab, Args, tracing, req, sec, wake, calls>>

\* Profile: the call of StartCPUProfile, and the error response when it fails
ProfileStart(r) ==
    LET st == StartCPUProfile(cpu, r)
    IN  /\ pc[r] = "start"
        /\ req[r].handler = "Profile"
        /\ cpu' = st.now
        /\ IF st.err
           THEN /\ w' = [w EXCEPT ![r] = serveError(@, 500, "Could not enable CPU profiling")]
                /\ pc' = [pc EXCEPT ![r] = "done"]
                /\ UNCHANGED dur
           ELSE /\ w' = [w EXCEPT ![r] = Write(@, "cpu profile")]
                /\ pc' = [pc EXCEPT ![r] = "sleep"]
                /\ dur' = [dur EXCEPT ![r] = sec[r]]
        /\ UNCHANGED <<srv, cn, profiles, symtab, Args, tracing, req, sec, wake, calls>>

ProfileStopForgotten(r) ==
    /\ pc[r] = "woken"
    /\ req[r].handler = "Profile"
    /\ pc' = [pc EXCEPT ![r] = "done"]
    /\ UNCHANGED <<srv, cn, profiles, symtab, Args, cpu, tracing, req, sec, dur, wake, calls, w>>

\* Profile: the call of StopCPUProfile once sleep has returned
ProfileStop(r) ==
    /\ pc[r] = "woken"
    /\ req[r].handler = "Profile"
    /\ cpu' = StopCPUProfile(cpu)
    /\ pc' = [pc EXCEPT ![r] = "done"]
    /\ UNCHANGED <<srv, cn, profiles, symtab, Args, tracing, req, sec, dur, wake, calls, w>>

\* Trace up to the call of trace.Start
TraceBegin(r, seconds) ==
    LET w1 == SetHeader(NewResponseWriter, "X-Content-Type-Options", "nosniff")
        s == TraceSeconds(seconds)
        w2 == SetHeader(w1, "Content-Type", "application/octet-stream")
        w3 == SetHeader(w2, "Content-Disposition", "attachment; filename=\"trace\"")
    IN  /\ Free(r)
        /\ req' = [req EXCEPT ![r] = [handler |-> "Trace", seconds |-> seconds]]
        /\ sec' = [sec EXCEPT ![r] = s]
        /\ dur' = [dur EXCEPT ![r] = 0]
        /\ wake' = [wake EXCEPT ![r] = "none"]
        /\ calls' = [calls EXCEPT ![r] = <<>>]
        /\ IF durationExceedsWriteTimeout(s)
           THEN /\ w' = [w EXCEPT ![r] = serveError(w1, 400,
                            "profile duration exceeds server's WriteTimeout")]
                /\ pc' = [pc EXCEPT ![r] = "done"]
           ELSE /\ w' = [w EXCEPT ![r] = w3]
                /\ pc' = [pc EXCEPT ![r] = "start"]
        /\ UNCHANGED <<srv, cn, profiles, symtab, Args, cpu, tracing>>

\* Trace: the call of trace.Start, and the error response when it fails
TraceStartCall(r) ==
    LET st == TraceStart(tracing, r)
    IN  /\ pc[r] = "start"
        /\ req[r].handler = "Trace"
        /\ tracing' = st.now
        /\ IF st.err
           THEN /\ w' = [w EXCEPT ![r] = serveError(@, 500, "Could not enable tracing")]
                /\ pc' = [pc EXCEPT ![r] = "done"]
                /\ UNCHANGED dur
           ELSE /\ w' = [w EXCEPT ![r] = Write(@, "execution trace")]
                /\ pc' = [pc EXCEPT ![r] = "sleep"]
                /\ dur' = [dur EXCEPT ![r] = sec[r]]
        /\ UNCHANGED <<srv, cn, profiles, symtab, Args, cpu, req, sec, wake, calls>>

\* Trace: the call of trace.Stop once sleep has returned
TraceStopCall(r) ==
    /\ pc[r] = "woken"
    /\ req[r].handler = "Trace"
    /\ tracing' = TraceStop(tracing)
    /\ pc' = [pc EXCEPT ![r] = "done"]
    /\ UNCHANGED <<srv, cn, profiles, symtab, Args, cpu, req, sec, dur, wake, calls, w>>

\* sleep: the case <-time.After(d) of the select
sleepTimer(r) ==
    /\ pc[r] = "sleep"
    /\ pc' = [pc EXCEPT ![r] = "woken"]
    /\ wake' = [wake EXCEPT ![r] = "timer"]
    /\ UNCHANGED <<srv, cn, profiles, symtab, Args, cpu, tracing, req, sec, dur, calls, w>>

\* sleep: the case <-clientGone of the select; clientGone is nil, and never
\* ready, when the writer is no CloseNotifier
sleepClientGone(r) ==
    /\ pc[r] = "sleep"
    /\ cn
    /\ pc' = [pc EXCEPT ![r] = "woken"]
    /\ wake' = [wake EXCEPT ![r] = "gone"]
    /\ UNCHANGED <<srv, cn, profiles, symtab, Args, cpu, tracing, req, sec, dur, calls, w>>

(***************************************************************************)
(* The named profiles and the index page.                                  *)
(***************************************************************************)
\* pprof.Lookup: nil (FALSE here) for a name the registry does not hold
Lookup(name) == name \in profiles

ServeHTTPCollectsAny(name, gcv, debugv) ==
    LET w1 == SetHeader(NewResponseWriter, "X-Content-Type-Options", "nosniff")
        gc == Atoi(gcv).val
        debug == Atoi(debugv).val
        w2 == IF debug # 0
              THEN SetHeader(w1, "Content-Type", "text/plain; charset=utf-8")
              ELSE SetHeader(SetHeader(w1, "Content-Type", "application/octet-stream"),
                             "Content-Disposition",
                             "attachment; filename=\"" \o name \o "\"")
    IN  IF ~Lookup(name)
        THEN [w |-> serveError(w1, 404, "Unknown profile"), calls |-> <<>>]
        ELSE [w |-> Write(w2, "profile " \o name \o " debug=" \o ToString(debug)),
              calls |-> (IF gc > 0 THEN <<"GC">> ELSE <<>>) \o <<"WriteTo">>]

ServeHTTPAlwaysAttaches(name, gcv, debugv) ==
    LET w1 == SetHeader(NewResponseWriter, "X-Content-Type-Options", "nosniff")
        gc == Atoi(gcv).val
        debug == Atoi(debugv).val
        w2 == SetHeader(SetHeader(w1, "Content-Type",
                                  IF debug # 0 THEN "text/plain; charset=utf-8"
                                  ELSE "application/octet-stream"),
                        "Content-Disposition",
                        "attachment; filename=\"" \o name \o "\"")
    IN  IF ~Lookup(name)
        THEN [w |-> serveError(w1, 404, "Unknown profile"), calls |-> <<>>]
        ELSE [w |-> Write(w2, "profile " \o name \o " debug=" \o ToString(debug)),
              calls |-> (IF name = "heap" /\ gc > 0 THEN <<"GC">> ELSE <<>>) \o <<"WriteTo">>]

\* handler.ServeHTTP: the response and the runtime calls, in order
ServeHTTP(name, gcv, debugv) ==
    LET w1 == SetHeader(NewResponseWriter, "X-Content-Type-Options", "nosniff")
        gc == Atoi(gcv).val
        debug == Atoi(debugv).val
        w2 == IF debug # 0
              THEN SetHeader(w1, "Content-Type", "text/plain; charset=utf-8")
              ELSE SetHeader(SetHeader(w1, "Content-Type", "application/octet-stream"),
                             "Content-Disposition",
                             "attachment; filename=\"" \o name \o "\"")
    IN  IF ~Lookup(name)
        THEN [w |-> serveError(w1, 404, "Unknown profile"), calls |-> <<>>]
        ELSE [w |-> Write(w2, "profile " \o name \o " debug=" \o ToString(debug)),
              calls |-> (IF name = "heap" /\ gc > 0 THEN <<"GC">> ELSE <<>>) \o <<"WriteTo">>]

\* a URL path is its mount prefix followed by the rest
HasPrefix(path, prefix) == Len(path) >= 1 /\ path[1] = prefix

TrimPrefix(path, prefix) ==
    IF HasPrefix(path, prefix) THEN (IF Len(path) >= 2 THEN path[2] ELSE "") ELSE path[1]

\* what a finished handler leaves of the request's state
Served(r, request, res) ==
    /\ Free(r)
    /\ req' = [req EXCEPT ![r] = request]
    /\ w' = [w EXCEPT ![r] = res.w]
    /\ calls' = [calls EXCEPT ![r] = res.calls]
    /\ pc' = [pc EXCEPT ![r] = "done"]
    /\ sec' = [sec EXCEPT ![r] = 0]
    /\ dur' = [dur EXCEPT ![r] = 0]
    /\ wake' = [wake EXCEPT ![r] = "none"]
    /\ UNCHANGED <<srv, cn, profiles, symtab, Args, cpu, tracing>>

Index(r, path, gcv, debugv) ==
    LET name == TrimPrefix(path, "/debug/pprof/")
    IN  Served(r, [handler |-> "Index", path |-> path, gc |-> gcv, debug |-> debugv],
               IF HasPrefix(path, "/debug/pprof/") /\ name # ""
               THEN ServeHTTP(name, gcv, debugv)
               ELSE [w |-> Write(NewResponseWriter, "index page"), calls |-> <<"Profiles">>])

\* the http.Handler that Handler(name) returns, serving a request
Handler(r, name, gcv, debugv) ==
    Served(r, [handler |-> "Handler", name |-> name, gc |-> gcv, debug |-> debugv],
           ServeHTTP(name, gcv, debugv))

(***************************************************************************)
(* The symbol resolver.                                                    *)
(***************************************************************************)
SyntaxError == [val |-> 0, err |-> TRUE]

\* strconv.ParseUint(s, 0, 64): base 16 after 0x, base 8 after 0, else base 10
ParseUint(s) ==
    IF s = <<>> THEN SyntaxError
    ELSE LET hex == s[1] = "0" /\ Len(s) > 1 /\ s[2] \in {"x", "X"}
             base == IF hex THEN 16 ELSE IF s[1] = "0" THEN 8 ELSE 10
             body == IF hex THEN SubSeq(s, 3, Len(s)) ELSE IF s[1] = "0" THEN Tail(s) ELSE s
         IN  IF (hex /\ Len(s) < 3) \/ ~AllDigits(body, base)
             THEN SyntaxError
             ELSE [val |-> Digits(body, base, 0), err |-> FALSE]

\* the verb %#x
RECURSIVE HexOf(_)
HexOf(n) == IF n < 16 THEN <<HexDigits[n + 1]>> ELSE HexOf(n \div 16) \o <<HexDigits[(n % 16) + 1]>>

SharpX(n) == "0x" \o StrOf(HexOf(n))

NoFunc == "<nil>"

\* runtime.FuncForPC and Func.Name
FuncForPC(a) == IF a \in DOMAIN symtab THEN symtab[a] ELSE NoFunc

\* bufio.Reader.ReadSlice('+'): the bytes up to and including the delimiter, or
\* what is left together with the reader's error
ReadSlice(rest, readErr) ==
    LET at == {i \in 1..Len(rest) : rest[i] = "+"}
    IN  IF at = {}
        THEN [word |-> rest, err |-> IF readErr THEN "other" ELSE "EOF", rest |-> <<>>]
        ELSE LET i == CHOOSE i \in at : \A j \in at : i <= j
             IN  [word |-> SubSeq(rest, 1, i), err |-> "nil", rest |-> SubSeq(rest, i + 1, Len(rest))]

RECURSIVE symbolLoopKeepsPlus(_, _, _)
symbolLoopKeepsPlus(rest, readErr, buf) ==
    LET rs == ReadSlice(rest, readErr)
        a == ParseUint(rs.word).val
        buf1 == IF a # 0 /\ FuncForPC(a) # NoFunc
                THEN Append(buf, SharpX(a) \o " " \o FuncForPC(a))
                ELSE buf
    IN  IF rs.err # "nil"
        THEN (IF rs.err # "EOF" THEN Append(buf1, "reading request: error") ELSE buf1)
        ELSE symbolLoopKeepsPlus(rs.rest, readErr, buf1)

\* Symbol: the loop over the words of the input
RECURSIVE symbolLoop(_, _, _)
symbolLoop(rest, readErr, buf) ==
    LET rs == ReadSlice(rest, readErr)
        word == IF rs.err = "nil" THEN SubSeq(rs.word, 1, Len(rs.word) - 1) ELSE rs.word
        a == ParseUint(word).val
        buf1 == IF a # 0 /\ FuncForPC(a) # NoFunc
                THEN Append(buf, SharpX(a) \o " " \o FuncForPC(a))
                ELSE buf
    IN  IF rs.err # "nil"
        THEN (IF rs.err # "EOF" THEN Append(buf1, "reading request: error") ELSE buf1)
        ELSE symbolLoop(rs.rest, readErr, buf1)

\* Symbol: the input is the body of a POST, whose read may fail, and the raw
\* query of any other request
Symbol(r, method, input, readErr) ==
    LET w1 == SetHeader(NewResponseWriter, "X-Content-Type-Options", "nosniff")
        w2 == SetHeader(w1, "Content-Type", "text/plain; charset=utf-8")
        buf == symbolLoop(input, readErr, <<"num_symbols: 1">>)
    IN  /\ readErr => method = "POST"
        /\ Served(r, [handler |-> "Symbol", method |-> method, input |-> input,
                      readErr |-> readErr],
                  [w |-> Write(w2, buf), calls |-> <<>>])

(***************************************************************************)
(* The command line.                                                       *)
(***************************************************************************)
NUL == "NUL"

\* strings.Join
RECURSIVE Join(_, _)
Join(ss, sep) ==
    IF ss = <<>> THEN <<>>
    ELSE IF Len(ss) = 1 THEN ss[1]
    ELSE ss[1] \o <<sep>> \o Join(Tail(ss), sep)

\* the flags and the width that may follow % in a format
RECURSIVE SkipFlags(_)
SkipFlags(f) ==
    IF f # <<>> /\ (f[1] \in {"#", "+", "-", " "} \/ IsDigit(f[1], 10))
    THEN SkipFlags(Tail(f)) ELSE f

\* fmt.Fprintf(w, format) with no operands: text is copied, %% is a percent
\* sign, and any other verb has no operand to print
RECURSIVE Fprintf(_)
Fprintf(format) ==
    IF format = <<>> THEN <<>>
    ELSE IF format[1] # "%" THEN <<format[1]>> \o Fprintf(Tail(format))
    ELSE LET f == SkipFlags(Tail(format))
         IN  IF f = <<>> THEN <<"%", "!", "(", "N", "O", "V", "E", "R", "B", ")">>
             ELSE IF f[1] = "%" THEN <<"%">> \o Fprintf(Tail(f))
             ELSE <<"%", "!", f[1], "(", "M", "I", "S", "S", "I", "N", "G", ")">>
                      \o Fprintf(Tail(f))

Cmdline(r) ==
    LET w1 == SetHeader(NewResponseWriter, "X-Content-Type-Options", "nosniff")
        w2 == SetHeader(w1, "Content-Type", "text/plain; charset=utf-8")
    IN  Served(r, [handler |-> "Cmdline"],
               [w |-> Write(w2, Fprintf(Join(Args, NUL))), calls |-> <<>>])

(***************************************************************************)
(* The state before any request, and the specifications: concurrent        *)
(* requests over a few inputs, each served again and again (Spec,          *)
(* FairSpec), and a single request over every input up to a length         *)
(* (SpecTimed, SpecNamed, SpecSymbol, SpecCmdline).                        *)
(***************************************************************************)
NoSymbols == [a \in {} |-> ""]

InitRequests ==
    /\ cpu = 0
    /\ tracing = 0
    /\ pc = [r \in Slots |-> "idle"]
    /\ req = [r \in Slots |-> [handler |-> "none"]]
    /\ sec = [r \in Slots |-> 0]
    /\ dur = [r \in Slots |-> 0]
    /\ wake = [r \in Slots |-> "none"]
    /\ calls = [r \in Slots |-> <<>>]
    /\ w = [r \in Slots |-> NewResponseWriter]

NoServer == [ok |-> FALSE, WriteTimeout |-> 0]

Server(t) == [ok |-> TRUE, WriteTimeout |-> t]

Mount == "/debug/pprof/"

Init ==
    /\ InitRequests
    /\ srv \in {NoServer, Server(1000), Server(30000)}
    /\ cn \in BOOLEAN
    /\ profiles = {"heap", "goroutine"}
    /\ symtab = NoSymbols
    /\ Args = << <<"a">> >>

Next ==
    \E r \in Slots :
        \/ \E s \in {<<>>, <<"1">>} : ProfileBegin(r, s)
        \/ ProfileStart(r)
        \/ ProfileStop(r)
        \/ \E s \in {<<>>, <<"0", ".", "5">>} : TraceBegin(r, s)
        \/ TraceStartCall(r)
        \/ TraceStopCall(r)
        \/ sleepTimer(r)
        \/ sleepClientGone(r)
        \/ \E n \in {"heap", "nosuch"} : Index(r, <<Mount, n>>, <<>>, <<>>)

Spec == Init /\ [][Next]_vars

\* the timer of a sleeping handler fires, and a handler whose sleep has
\* returned runs on to its stop call
FairSpec ==
    /\ Spec
    /\ \A r \in Slots :
           WF_vars(sleepTimer(r)) /\ WF_vars(ProfileStop(r)) /\ WF_vars(TraceStopCall(r))

SecondsAlphabet == {"-", ".", "0", "1", "5", "x"}

InitTimed ==
    /\ InitRequests
    /\ srv \in {NoServer, Server(0), Server(500), Server(1000), Server(30000), Server(-1000)}
    /\ cn \in BOOLEAN
    /\ profiles = {"heap", "goroutine"}
    /\ symtab = NoSymbols
    /\ Args = << <<"a">> >>

NextTimed ==
    \/ \E s \in SeqsUpTo(SecondsAlphabet, MaxLen) : pc[1] = "idle" /\ ProfileBegin(1, s)
    \/ ProfileStart(1)
    \/ ProfileStop(1)
    \/ \E s \in SeqsUpTo(SecondsAlphabet, MaxLen) : pc[1] = "idle" /\ TraceBegin(1, s)
    \/ TraceStartCall(1)
    \/ TraceStopCall(1)
    \/ sleepTimer(1)
    \/ sleepClientGone(1)

SpecTimed == InitTimed /\ [][NextTimed]_vars

FlagAlphabet == {"-", "0", "1", "x"}

InitNamed ==
    /\ InitRequests
    /\ srv = NoServer
    /\ cn = TRUE
    /\ profiles \in SUBSET {"heap", "goroutine"}
    /\ symtab = NoSymbols
    /\ Args = << <<"a">> >>

NextNamed ==
    /\ pc[1] = "idle"
    /\ \E gcv \in SeqsUpTo(FlagAlphabet, MaxFlagLen), debugv \in SeqsUpTo(FlagAlphabet, MaxFlagLen) :
           \/ \E path \in {<<Mount>>, <<"/">>} \cup {<<Mount, n>> : n \in {"heap", "goroutine", "nosuch"}} :
                  Index(1, path, gcv, debugv)
           \/ \E n \in {"heap", "goroutine", "nosuch", ""} : Handler(1, n, gcv, debugv)

SpecNamed == InitNamed /\ [][NextNamed]_vars

SymbolAlphabet == {"+", "0", "1", "a", "x"}

SymbolExamples ==
    { <<"1", "a", "+", "2", "b", "+", "0">>,
      <<"0", "x", "1", "a", "+", "0", "x", "2", "b", "+", "0">> }

InitSymbol ==
    /\ InitRequests
    /\ srv = NoServer
    /\ cn = TRUE
    /\ profiles = {"heap", "goroutine"}
    /\ symtab \in { NoSymbols,
                    (26 :> "main.f") @@ (43 :> "main.g"),
                    (1 :> "main.main") @@ (10 :> "main.f") @@ (26 :> "main.g") }
    /\ Args = << <<"a">> >>

NextSymbol ==
    /\ pc[1] = "idle"
    /\ \E input \in SeqsUpTo(SymbolAlphabet, MaxSymLen) \cup SymbolExamples :
           \/ Symbol(1, "GET", input, FALSE)
           \/ \E readErr \in BOOLEAN : Symbol(1, "POST", input, readErr)

SpecSymbol == InitSymbol /\ [][NextSymbol]_vars

ArgAlphabet == {"a", "0", "%"}

InitCmdline ==
    /\ InitRequests
    /\ srv = NoServer
    /\ cn = TRUE
    /\ profiles = {"heap", "goroutine"}
    /\ symtab = NoSymbols
    /\ Args \in {a \in SeqsUpTo(SeqsUpTo(ArgAlphabet, MaxArgLen), MaxArgs) : a # <<>>}

NextCmdline == pc[1] = "idle" /\ Cmdline(1)

SpecCmdline == InitCmdline /\ [][NextCmdline]_vars

(***************************************************************************)
(* The properties.                                                         *)
(***************************************************************************)
Timed(r) == req[r].handler \in {"Profile", "Trace"}

\* the request's computed duration meets or exceeds a configured write timeout
TooLong(r) == Timed(r) /\ srv.ok /\ srv.WriteTimeout # 0 /\ sec[r] >= srv.WriteTimeout

\* C1: a /profile or /trace request whose computed duration meets or exceeds
\* the server's configured (nonzero) write timeout is answered 400, and the
\* capture engine is never started by it: it never reaches the start call, it
\* is given no sleep duration and neither engine is active on its behalf.
C1_NoCaptureBeyondWriteTimeout ==
    \A r \in Slots :
        TooLong(r) =>
            /\ pc[r] = "done"
            /\ w[r].status = 400
            /\ dur[r] = 0
            /\ cpu # r
            /\ tracing # r

C1_Witness ==
    \E p, t \in Slots :
        /\ req[p].handler = "Profile" /\ TooLong(p) /\ w[p].status = 400
        /\ req[t].handler = "Trace" /\ TooLong(t) /\ w[t].status = 400
        /\ cpu = 0 /\ tracing = 0

\* C2: a /profile request that tries to start the CPU sampler while another
\* request's capture is active gets 500 and leaves the sampler as it is; an
\* active capture ends only by the stop call of the request that started it.
C2_SecondProfileFailsFast ==
    [][\A r \in Slots :
          /\ (req[r].handler = "Profile" /\ pc[r] = "start" /\ pc'[r] # "start" /\ cpu # 0)
                 => (pc'[r] = "done" /\ w'[r].status = 500 /\ cpu' = cpu)
          /\ (cpu = r /\ cpu' # r)
                 => (pc[r] = "woken" /\ pc'[r] = "done" /\ cpu' = 0)]_vars

C2_Witness ==
    \E a, b \in Slots :
        /\ a # b
        /\ cpu = a /\ pc[a] = "sleep"
        /\ req[b].handler = "Profile" /\ pc[b] = "done" /\ w[b].status = 500

EngineOf(r) == IF req[r].handler = "Profile" THEN cpu ELSE tracing

\* C3: a handler that started a capture leaves its sleep by the timer or, when
\* the writer notifies of it, by the client going away, and by nothing else;
\* its next step stops the engine and returns, so that a returned handler has
\* no capture active; and a sleeping handler eventually returns.
C3_CaptureStoppedOnReturn ==
    /\ [](\A r \in Slots : pc[r] = "done" => (cpu # r /\ tracing # r))
    /\ [][\A r \in Slots :
             /\ (pc[r] = "sleep" /\ pc'[r] # "sleep")
                    => /\ pc'[r] = "woken"
                       /\ wake'[r] \in {"timer", "gone"}
                       /\ wake'[r] = "gone" => cn
             /\ (pc[r] = "woken" /\ pc'[r] # "woken")
                    => (pc'[r] = "done" /\ EngineOf(r) = r /\ EngineOf(r)' = 0)]_vars
    /\ \A r \in Slots : (pc[r] = "sleep") ~> (pc[r] = "done")

C3_Witness ==
    \E a, b \in Slots :
        /\ pc[a] = "done" /\ w[a].status = 200 /\ wake[a] = "timer"
        /\ pc[b] = "done" /\ w[b].status = 200 /\ wake[b] = "gone"
        /\ {req[a].handler, req[b].handler} = {"Profile", "Trace"}
        /\ cpu = 0 /\ tracing = 0

Nosniff(r) ==
    /\ "X-Content-Type-Options" \in DOMAIN w[r].sent
    /\ w[r].sent["X-Content-Type-Options"] = "nosniff"

\* C4: every response sent, whatever the path, carries the header
\* X-Content-Type-Options: nosniff.
C4_NosniffOnEveryResponse == \A r \in Slots : w[r].status # 0 => Nosniff(r)

\* C5: every error response (404, 400, 500) is sent without a
\* Content-Disposition header and with the marker header X-Go-Pprof.
C5_ErrorResponseHeaders ==
    \A r \in Slots :
        w[r].status \in {400, 404, 500} =>
            /\ "Content-Disposition" \notin DOMAIN w[r].sent
            /\ "X-Go-Pprof" \in DOMAIN w[r].sent
            /\ w[r].sent["X-Go-Pprof"] = "1"

C5_Witness ==
    \E a, b \in Slots :
        /\ req[a].handler = "Profile" /\ w[a].status = 500
        /\ req[b].handler = "Index" /\ w[b].status = 404

\* the profile name a request asks for, "" when it asks for none
NameOf(r) ==
    IF req[r].handler = "Handler" THEN req[r].name
    ELSE IF req[r].handler = "Index" /\ Len(req[r].path) = 2 /\ req[r].path[1] = Mount
         THEN req[r].path[2]
    ELSE ""

Found(r) == req[r].handler \in {"Index", "Handler"} /\ NameOf(r) \in profiles

DecimalDigits == {"0", "1", "2", "3", "4", "5", "6", "7", "8", "9"}

\* text that writes the integer zero, or is absent
WritesZero(s) ==
    \/ s = <<>>
    \/ LET b == IF s[1] \in {"+", "-"} THEN Tail(s) ELSE s
       IN  b # <<>> /\ \A i \in 1..Len(b) : b[i] = "0"

\* text that writes an integer other than zero
WritesNonzero(s) ==
    /\ s # <<>>
    /\ LET b == IF s[1] \in {"+", "-"} THEN Tail(s) ELSE s
       IN  /\ b # <<>>
           /\ \A i \in 1..Len(b) : b[i] \in DecimalDigits
           /\ \E i \in 1..Len(b) : b[i] # "0"

\* text that writes an integer above zero
WritesPositive(s) == WritesNonzero(s) /\ s[1] # "-"

AttachmentOf(name) ==
    CASE name = "heap" -> "attachment; filename=\"heap\""
      [] name = "goroutine" -> "attachment; filename=\"goroutine\""

\* C6: a profile of the registry asked for with debug 0 or absent is sent as
\* an octet-stream with Content-Disposition: attachment; filename="<name>",
\* and with debug nonzero as plain text without Content-Disposition.
C6_DebugSelectsDisposition ==
    \A r \in Slots :
        Found(r) =>
            /\ WritesZero(req[r].debug) =>
                   /\ w[r].status = 200
                   /\ w[r].sent["Content-Type"] = "application/octet-stream"
                   /\ "Content-Disposition" \in DOMAIN w[r].sent
                   /\ w[r].sent["Content-Disposition"] = AttachmentOf(NameOf(r))
            /\ WritesNonzero(req[r].debug) =>
                   /\ w[r].status = 200
                   /\ w[r].sent["Content-Type"] = "text/plain; charset=utf-8"
                   /\ "Content-Disposition" \notin DOMAIN w[r].sent

C6_Witness ==
    /\ Found(1) /\ NameOf(1) = "goroutine"
    /\ req[1].debug = <<"-", "1">>
    /\ "Content-Disposition" \notin DOMAIN w[1].sent
    /\ w[1].body = <<"profile goroutine debug=-1">>

\* C10: the named-profile handler runs a garbage collection exactly when the
\* profile is found, is named heap and gc is above zero; the collection then
\* comes before the profile is written.
C10_CollectOnlyHeap ==
    \A r \in Slots :
        req[r].handler \in {"Index", "Handler"} =>
            LET collect == Found(r) /\ NameOf(r) = "heap" /\ WritesPositive(req[r].gc)
            IN  /\ collect => calls[r] = <<"GC", "WriteTo">>
                /\ ~collect => \A i \in 1..Len(calls[r]) : calls[r][i] # "GC"

C10_Witness ==
    /\ req[1].handler = "Index" /\ NameOf(1) = "heap"
    /\ req[1].gc = <<"1">>
    /\ calls[1] = <<"GC", "WriteTo">>
    /\ w[1].status = 200

\* seconds values that are absent, zero, negative or do not parse
DefaultedSeconds ==
    { <<>>,
      <<"0">>, <<"0", "0">>, <<"0", ".", "0">>, <<".", "0">>, <<"0", ".">>, <<"-", "0">>,
      <<"-", "5">>, <<"-", "1">>, <<"-", ".", "5">>, <<"-", "1", "5">>, <<"-", "1", ".">>,
      <<"x">>, <<"1", "x">>, <<".">>, <<"-">>, <<"1", ".", "x">>, <<".", ".">>,
      <<"-", "x">>, <<"1", "-">>, <<"5", ".", ".">>, <<"0", "x", "1">> }

\* C9: a /trace request whose seconds value is absent, zero, negative or does
\* not parse is served as seconds=1: the write timeout is checked against one
\* second, and the capture lasts one second.
C9_TraceDefaultsToOneSecond ==
    \A r \in Slots :
        (req[r].handler = "Trace" /\ req[r].seconds \in DefaultedSeconds) =>
            /\ sec[r] = Second
            /\ (w[r].status = 400) <=> (srv.ok /\ srv.WriteTimeout # 0 /\ Second >= srv.WriteTimeout)
            /\ pc[r] \in {"sleep", "woken"} => dur[r] = Second

C9_Witness ==
    /\ req[1].handler = "Trace" /\ req[1].seconds = <<"-", "5">>
    /\ pc[1] = "sleep" /\ dur[1] = Second /\ tracing = 1
    /\ srv.ok /\ srv.WriteTimeout = 30000

\* the parts of text between separators
RECURSIVE Split(_, _)
Split(s, sep) ==
    LET at == {i \in 1..Len(s) : s[i] = sep}
    IN  IF at = {} THEN <<s>>
        ELSE LET i == CHOOSE i \in at : \A j \in at : i <= j
             IN  <<SubSeq(s, 1, i - 1)>> \o Split(SubSeq(s, i + 1, Len(s)), sep)

\* whether a line is among the lines
HasLine(lines, l) == \E i \in 1..Len(lines) : lines[i] = l

\* C7 as stated: for the input 1a+2b+0 with 0x1a and 0x2b in the symbol table,
\* the output begins with num_symbols: 1 and holds a line for 1a and for 2b.
C7_BareHexTokensResolve ==
    \A r \in Slots :
        (/\ req[r].handler = "Symbol"
         /\ req[r].input = <<"1", "a", "+", "2", "b", "+", "0">>
         /\ {26, 43} \subseteq DOMAIN symtab) =>
            /\ w[r].body[1][1] = "num_symbols: 1"
            /\ HasLine(w[r].body[1], "0x1a " \o symtab[26])
            /\ HasLine(w[r].body[1], "0x2b " \o symtab[43])

\* C7 amended: the output begins with num_symbols: 1; every token that, read
\* as Go reads an integer literal (hexadecimal after 0x, octal after 0, else
\* decimal), is a nonzero address of the symbol table has its line
\* "<0xhex> <name>", and the lines after the first are as many as these tokens;
\* 0x1a+0x2b+0 gives the two lines of 0x1a and 0x2b, and 1a+2b+0 gives none.
C7_PrefixedTokensResolve ==
    \A r \in Slots :
        req[r].handler = "Symbol" =>
            LET out == w[r].body[1]
                toks == Split(req[r].input, "+")
                hits == {i \in 1..Len(toks) :
                            ParseUint(toks[i]).val # 0 /\ ParseUint(toks[i]).val \in DOMAIN symtab}
                n == Cardinality(hits)
            IN  /\ out[1] = "num_symbols: 1"
                /\ \A i \in hits :
                       HasLine(Tail(out), SharpX(ParseUint(toks[i]).val) \o " "
                                              \o symtab[ParseUint(toks[i]).val])
                /\ Len(out) = 1 + n + (IF req[r].readErr THEN 1 ELSE 0)
                /\ (req[r].input = <<"0", "x", "1", "a", "+", "0", "x", "2", "b", "+", "0">>
                    /\ {26, 43} \subseteq DOMAIN symtab /\ ~req[r].readErr)
                       => out = <<"num_symbols: 1", "0x1a " \o symtab[26], "0x2b " \o symtab[43]>>
                /\ (req[r].input = <<"1", "a", "+", "2", "b", "+", "0">> /\ ~req[r].readErr)
                       => out = <<"num_symbols: 1">>

C7_Witness ==
    /\ req[1].handler = "Symbol"
    /\ req[1].input = <<"0", "x", "1", "a", "+", "0", "x", "2", "b", "+", "0">>
    /\ w[1].body[1] = <<"num_symbols: 1", "0x1a main.f", "0x2b main.g">>

\* C8: the body of /cmdline, split on NUL, is the argument vector.
C8_CmdlineRoundTrip ==
    \A r \in Slots :
        req[r].handler = "Cmdline" => Split(w[r].body[1], NUL) = Args

====
